---- MODULE Spec2Model ----
(***************************************************************************)
(* Model of the page-layout ("Margins") stage of scantailor-advanced:      *)
(* page_layout::Filter (src/filters/page_layout/Filter.cpp) together with  *)
(* the parameter store (Settings), the per-page record (Params), the guide *)
(* list and the XML persistence codec it drives.                           *)
(*                                                                         *)
(* Lengths are fixed-point numbers: an integer n stands for n/10 of the    *)
(* unit it is measured in (127 = 12.7mm, 5 = 0.5in, 3000 = 300px).         *)
(* A QString is a sequence of one-character strings: "10" is <<"1","0">>.  *)
(***************************************************************************)
EXTENDS Integers, Sequences, FiniteSets, TLC

(***************************************************************************)
(* Bounds of the model.                                                    *)
(***************************************************************************)
NumPages == 2      \* pages of the project are 1..NumPages
MaxGuides == 2     \* longest guide list the user builds
MaxTasks == 1      \* tasks created and not yet run

Pages == 1..NumPages

\* PageId() : the null page key, what ProjectReader::pageId gives for an
\* id it does not know.
NullPageId == 0

(***************************************************************************)
(* QString / number conversions.                                           *)
(***************************************************************************)
Digits == <<"0", "1", "2", "3", "4", "5", "6", "7", "8", "9">>

DigitChar(d) == Digits[d + 1]

DigitChars == {Digits[i] : i \in 1..10}

DigitValues == [c \in DigitChars |-> (CHOOSE i \in 1..10 : Digits[i] = c) - 1]

IsDigit(c) == c \in DigitChars

DigitValue(c) == DigitValues[c]

RECURSIVE NatToStr(_)
NatToStr(n) == IF n < 10 THEN <<DigitChar(n)>>
               ELSE Append(NatToStr(n \div 10), DigitChar(n % 10))

\* QString::number(int) as QDomElement::setAttribute(name, int) formats it.
IntToStr(n) == IF n < 0 THEN <<"-">> \o NatToStr(-n) ELSE NatToStr(n)

RECURSIVE DigitsToNat(_, _)
\* The number the first n characters of the digit string s spell.
DigitsToNat(s, n) == IF n = 0 THEN 0
                     ELSE DigitsToNat(s, n - 1) * 10 + DigitValue(s[n])

AllDigits(s) == s # <<>> /\ \A i \in 1..Len(s) : IsDigit(s[i])

\* The digits of an optionally signed number, <<>> if the string is none.
DigitsOf(s) ==
    IF s = <<>> THEN <<>>
    ELSE LET body == IF Head(s) \in {"-", "+"} THEN Tail(s) ELSE s
         IN  IF AllDigits(body) THEN body ELSE <<>>

\* QString::toInt(&ok): ok is FALSE for the empty string and for anything
\* that is not an optionally signed run of decimal digits.
ToIntOk(s) == DigitsOf(s) # <<>>

ToInt(s) ==
    LET body == DigitsOf(s)
    IN  IF body = <<>> THEN 0
        ELSE IF Head(s) = "-" THEN 0 - DigitsToNat(body, Len(body))
        ELSE DigitsToNat(body, Len(body))

(***************************************************************************)
(* The attributed tree (QDomElement).  An element is a tag, a map from     *)
(* attribute names to values and a list of child nodes.  A child that is   *)
(* not an element (text, comment) has kind "text".                         *)
(***************************************************************************)
Element(tag, attrs, children) ==
    [kind |-> "element", tag |-> tag, attrs |-> attrs, children |-> children]

NoAttrs == [name \in {} |-> <<>>]

\* QDomElement() : what namedItem(..).toElement() gives when nothing matches.
NullElement == [kind |-> "null", tag |-> "", attrs |-> NoAttrs, children |-> <<>>]

TextNode == [kind |-> "text", tag |-> "#text", attrs |-> NoAttrs, children |-> <<>>]

IsNull(el) == el.kind = "null"

IsElement(node) == node.kind = "element"

\* QDomElement::attribute(name): the value, or the empty string.
Attribute(el, name) == IF name \in DOMAIN el.attrs THEN el.attrs[name] ELSE <<>>

\* QDomNode::namedItem(name).toElement(): the first child node of that name.
NamedItem(el, name) ==
    LET hits == {i \in 1..Len(el.children) : el.children[i].tag = name}
    IN  IF hits = {} THEN NullElement
        ELSE LET n == el.children[CHOOSE i \in hits : \A j \in hits : i <= j]
             IN  IF IsElement(n) THEN n ELSE NullElement

AppendChild(el, child) == [el EXCEPT !.children = Append(@, child)]

(***************************************************************************)
(* Params: the per-page record.  Margins are <<left, top, right, bottom>>, *)
(* a rectangle is <<x, y, width, height>>, a size is <<width, height>>.    *)
(***************************************************************************)
\* QRectF() and QSizeF(): the "undefined" rectangle and size.
NullRect == <<0, 0, 0, 0>>

InvalidSize == <<-1, -1>>

Margins(left, top, right, bottom) == <<left, top, right, bottom>>

Params(hardMarginsMM, contentRect, pageRect, contentSizeMM, alignment, autoMargins) ==
    [hardMarginsMM |-> hardMarginsMM, contentRect |-> contentRect,
     pageRect |-> pageRect, contentSizeMM |-> contentSizeMM,
     alignment |-> alignment, autoMargins |-> autoMargins]

Verticals == {"top", "vcenter"}
Horizontals == {"left", "hcenter"}

AlignmentToStr(a) ==
    CASE a = "top" -> <<"t", "o", "p">>
      [] a = "vcenter" -> <<"v", "c">>
      [] a = "left" -> <<"l", "e", "f", "t">>
      [] a = "hcenter" -> <<"h", "c">>

\* An unknown or absent name reads as the first alternative.
VerticalFromStr(s) == IF s = AlignmentToStr("vcenter") THEN "vcenter" ELSE "top"

HorizontalFromStr(s) == IF s = AlignmentToStr("hcenter") THEN "hcenter" ELSE "left"

BoolToStr(b) == IF b THEN <<"1">> ELSE <<"0">>

\* Params::toXml(doc, name)
ParamsToXml(p, name) ==
    Element(name, [autoMargins |-> BoolToStr(p.autoMargins)],
      << Element("hardMarginsMM",
                 [left |-> IntToStr(p.hardMarginsMM[1]),
                  top |-> IntToStr(p.hardMarginsMM[2]),
                  right |-> IntToStr(p.hardMarginsMM[3]),
                  bottom |-> IntToStr(p.hardMarginsMM[4])], <<>>),
         Element("contentRect",
                 [x |-> IntToStr(p.contentRect[1]), y |-> IntToStr(p.contentRect[2]),
                  width |-> IntToStr(p.contentRect[3]),
                  height |-> IntToStr(p.contentRect[4])], <<>>),
         Element("pageRect",
                 [x |-> IntToStr(p.pageRect[1]), y |-> IntToStr(p.pageRect[2]),
                  width |-> IntToStr(p.pageRect[3]),
                  height |-> IntToStr(p.pageRect[4])], <<>>),
         Element("contentSizeMM",
                 [width |-> IntToStr(p.contentSizeMM[1]),
                  height |-> IntToStr(p.contentSizeMM[2])], <<>>),
         Element("alignment",
                 [vert |-> AlignmentToStr(p.alignment.vert),
                  hor |-> AlignmentToStr(p.alignment.hor)], <<>>) >>)

RectFromXml(el) ==
    <<ToInt(Attribute(el, "x")), ToInt(Attribute(el, "y")),
      ToInt(Attribute(el, "width")), ToInt(Attribute(el, "height"))>>

\* Params::Params(const QDomElement&)
ParamsFromXml(el) ==
    LET m == NamedItem(el, "hardMarginsMM")
        s == NamedItem(el, "contentSizeMM")
        a == NamedItem(el, "alignment")
    IN  Params(Margins(ToInt(Attribute(m, "left")), ToInt(Attribute(m, "top")),
                       ToInt(Attribute(m, "right")), ToInt(Attribute(m, "bottom"))),
               RectFromXml(NamedItem(el, "contentRect")),
               RectFromXml(NamedItem(el, "pageRect")),
               <<ToInt(Attribute(s, "width")), ToInt(Attribute(s, "height"))>>,
               [vert |-> VerticalFromStr(Attribute(a, "vert")),
                hor |-> HorizontalFromStr(Attribute(a, "hor"))],
               Attribute(el, "autoMargins") = <<"1">>)

(***************************************************************************)
(* Guide: a guide line, <<orientation, position>> as a record.             *)
(***************************************************************************)
OrientationToStr(o) == IF o = "vert" THEN <<"v">> ELSE <<"h">>

\* Guide::toXml(doc, name)
GuideToXml(g, name) ==
    Element(name, [orientation |-> OrientationToStr(g.orientation),
                   position |-> IntToStr(g.position)], <<>>)

\* Guide::Guide(const QDomElement&)
GuideFromXml(el) ==
    [orientation |-> IF Attribute(el, "orientation") = <<"v">> THEN "vert" ELSE "hor",
     position |-> ToInt(Attribute(el, "position"))]

(***************************************************************************)
(* UnitsConverter: linear conversion between units at a resolution.        *)
(***************************************************************************)
Units == {"PIXELS", "MILLIMETRES", "CENTIMETRES", "INCHES"}

ToMillimetres(v, from, dpi) ==
    CASE from = "PIXELS" -> (v * 254) \div (dpi * 10)
      [] from = "MILLIMETRES" -> v
      [] from = "CENTIMETRES" -> v * 10
      [] from = "INCHES" -> (v * 254) \div 10

FromMillimetres(v, to, dpi) ==
    CASE to = "PIXELS" -> (v * dpi * 10) \div 254
      [] to = "MILLIMETRES" -> v
      [] to = "CENTIMETRES" -> v \div 10
      [] to = "INCHES" -> (v * 10) \div 254

\* UnitsConverter(dpi).convert(a, b, from, to): both values, in place.
Convert(a, b, from, to, dpi) ==
    IF from = to THEN <<a, b>>
    ELSE <<FromMillimetres(ToMillimetres(a, from, dpi), to, dpi),
           FromMillimetres(ToMillimetres(b, from, dpi), to, dpi)>>

(***************************************************************************)
(* Settings: the parameter store.  A store value is a record               *)
(*   items          : the mapping page key -> Params (a function whose     *)
(*                    domain is the set of keys that have a record),       *)
(*   guides         : the project-wide guide list,                         *)
(*   showMiddleRect : the project-wide display toggle.                     *)
(***************************************************************************)
NoItems == [k \in {} |-> Params(Margins(0, 0, 0, 0), NullRect, NullRect, InvalidSize,
                                [vert |-> "top", hor |-> "left"], FALSE)]

\* Settings::Settings(): the store a new stage starts with.
NewSettings == [items |-> NoItems, guides |-> <<>>, showMiddleRect |-> FALSE]

\* The margins and alignment of a record the store creates on demand.
DefaultHardMarginsMM == Margins(100, 50, 100, 50)

DefaultAlignment == [vert |-> "vcenter", hor |-> "hcenter"]

\* Settings::clear()
SettingsClear(s) == NewSettings

\* Settings::isParamsNull(page_id)
IsParamsNull(s, page_id) == page_id \notin DOMAIN s.items

\* Settings::getPageParams(page_id): a fresh copy, <<>> when there is none.
GetPageParams(s, page_id) ==
    IF page_id \in DOMAIN s.items THEN <<s.items[page_id]>> ELSE <<>>

\* Settings::setPageParams(page_id, params): insert or overwrite.
SetPageParams(s, page_id, params) ==
    [s EXCEPT !.items = [k \in DOMAIN s.items \cup {page_id} |->
                           IF k = page_id THEN params ELSE s.items[k]]]

\* Settings::setContentSizeMM(page_id, size)
SetContentSizeMM(s, page_id, size) ==
    IF page_id \in DOMAIN s.items
    THEN [s EXCEPT !.items[page_id].contentSizeMM = size]
    ELSE SetPageParams(s, page_id,
                       Params(DefaultHardMarginsMM, NullRect, NullRect, size,
                              DefaultAlignment, FALSE))

\* Settings::invalidateContentSize(page_id)
InvalidateContentSize(s, page_id) ==
    IF page_id \in DOMAIN s.items
    THEN [s EXCEPT !.items[page_id].contentSizeMM = InvalidSize]
    ELSE s

SeqRange(seq) == {seq[i] : i \in 1..Len(seq)}

\* Settings::removePagesMissingFrom(pages)
RemovePagesMissingFrom(s, pages) ==
    [s EXCEPT !.items = [k \in DOMAIN s.items \cap SeqRange(pages) |-> s.items[k]]]

\* Settings::performRelinking(relinker): every record is reinserted under
\* the key the relinker gives it, in key order; a null key drops it.
SettingsPerformRelinking(s, relinker) ==
    LET olds(n) == {k \in DOMAIN s.items : relinker[k] = n}
        news == {relinker[k] : k \in DOMAIN s.items} \ {NullPageId}
        last(n) == CHOOSE k \in olds(n) : \A j \in olds(n) : j <= k
    IN  [s EXCEPT !.items = [n \in news |-> s.items[last(n)]]]

\* Settings::enableShowingMiddleRect(state)
EnableShowingMiddleRect(s, state) == [s EXCEPT !.showMiddleRect = state]

\* Settings::isShowingMiddleRectEnabled()
IsShowingMiddleRectEnabled(s) == s.showMiddleRect

\* QSizeF::isValid()
IsValidSize(size) == size[1] >= 0 /\ size[2] >= 0

\* Settings::getHardMarginsMM(page_id): the stored margins, or the default.
GetHardMarginsMM(s, page_id) ==
    IF page_id \in DOMAIN s.items THEN s.items[page_id].hardMarginsMM
    ELSE DefaultHardMarginsMM

\* Settings::getPageAlignment(page_id): the stored alignment, or the default.
GetPageAlignment(s, page_id) ==
    IF page_id \in DOMAIN s.items THEN s.items[page_id].alignment ELSE DefaultAlignment

\* Settings::isPageAutoMarginsEnabled(page_id): the stored flag, or the default.
IsPageAutoMarginsEnabled(s, page_id) ==
    IF page_id \in DOMAIN s.items THEN s.items[page_id].autoMargins ELSE FALSE

\* Settings::checkEverythingDefined(pages, ignore): ignore is <<>> for the
\* null pointer and <<page_id>> otherwise.
CheckEverythingDefined(s, pages, ignore) ==
    \A i \in 1..Len(pages) :
        \/ ignore # <<>> /\ ignore[1] = pages[i]
        \/ /\ pages[i] \in DOMAIN s.items
           /\ IsValidSize(s.items[pages[i]].contentSizeMM)

(***************************************************************************)
(* The page-order providers.  A provider is named by its class; the null   *)
(* provider stands for the natural order.  The width and height providers  *)
(* read the store, the deviation provider the scores of the store's        *)
(* deviation collaborator (a function from page key to score).             *)
(***************************************************************************)
NullProvider == "null"

OrderByWidthProvider == "OrderByWidthProvider"

OrderByHeightProvider == "OrderByHeightProvider"

OrderByDeviationProvider == "OrderByDeviationProvider"

\* The measurement a page is ordered by: dim 1 is the width, dim 2 the
\* height; an undefined measurement counts as zero.
Measurement(s, page_id, dim) ==
    IF page_id \in DOMAIN s.items /\ IsValidSize(s.items[page_id].contentSizeMM)
    THEN s.items[page_id].contentSizeMM[dim]
    ELSE 0

\* PageOrderProvider::precedes(lhs_page, rhs_page)
Precedes(provider, s, scores, lhs, rhs) ==
    CASE provider = OrderByWidthProvider -> Measurement(s, lhs, 1) < Measurement(s, rhs, 1)
      [] provider = OrderByHeightProvider -> Measurement(s, lhs, 2) < Measurement(s, rhs, 2)
      [] provider = OrderByDeviationProvider -> scores[lhs] > scores[rhs]
      [] OTHER -> FALSE

\* One step of the stable sort: x goes in front of the first page it
\* precedes, behind every page it does not.
InsertInOrder(sorted, x, provider, s, scores) ==
    LET firsts == {i \in 1..Len(sorted) : Precedes(provider, s, scores, x, sorted[i])}
        pos == IF firsts = {} THEN Len(sorted) + 1
               ELSE CHOOSE i \in firsts : \A j \in firsts : i <= j
    IN  SubSeq(sorted, 1, pos - 1) \o <<x>> \o SubSeq(sorted, pos, Len(sorted))

RECURSIVE SortPrefix(_, _, _, _, _)
\* The first n pages, stably sorted by the provider.
SortPrefix(pages, n, provider, s, scores) ==
    IF n = 0 THEN <<>>
    ELSE InsertInOrder(SortPrefix(pages, n - 1, provider, s, scores), pages[n],
                       provider, s, scores)

\* The page sequence as the thumbnail view shows it under an option's
\* provider: untouched for the null provider, stably sorted otherwise.
SortPages(pages, provider, s, scores) ==
    IF provider = NullProvider THEN pages
    ELSE SortPrefix(pages, Len(pages), provider, s, scores)

(***************************************************************************)
(* Collaborators of the codec.                                             *)
(***************************************************************************)
\* ProjectPages::toPageSequence(view): the project's pages, in order.
ToPageSequence(pages) == pages

\* ProjectWriter::enumPages: the pairs <<page key, numeric id>> the writer
\* calls back with, in the project's page order, numbered from base + 1.
EnumPages(pages, base) == [i \in 1..Len(pages) |-> <<pages[i], base + i>>]

\* ProjectReader::pageId(numeric_id): a reader is a set of <<id, page key>>.
ReaderPageId(reader, id) ==
    IF \E e \in reader : e[1] = id
    THEN (CHOOSE e \in reader : e[1] = id)[2]
    ELSE NullPageId

(***************************************************************************)
(* page_layout::Filter, operation by operation, as functions of the store. *)
(***************************************************************************)
\* Faulty variant: selected() that purges nothing.
FilterSelectedNothing(s, pages) == s

\* Filter::selected()
FilterSelected(s, pages) == RemovePagesMissingFrom(s, ToPageSequence(pages))

\* Faulty variant: performRelinking that does not reach the store.
FilterPerformRelinkingNothing(s, relinker) == s

\* Filter::performRelinking(relinker)
FilterPerformRelinking(s, relinker) == SettingsPerformRelinking(s, relinker)

\* Faulty variant: writePageSettings without the return for a page that has
\* no record, which then gets a page element with no params.
WritePageSettingsAlways(s, filter_el, page_id, numeric_id) ==
    LET params == GetPageParams(s, page_id)
    IN  AppendChild(filter_el,
                    Element("page", [id |-> IntToStr(numeric_id)],
                            IF params = <<>> THEN <<>>
                            ELSE << ParamsToXml(params[1], "params") >>))

\* Filter::writePageSettings(doc, filter_el, page_id, numeric_id)
WritePageSettings(s, filter_el, page_id, numeric_id) ==
    LET params == GetPageParams(s, page_id)
    IN  IF params = <<>> THEN filter_el
        ELSE AppendChild(filter_el,
                         Element("page", [id |-> IntToStr(numeric_id)],
                                 << ParamsToXml(params[1], "params") >>))

\* The guides element of Filter::saveSettings: one guide child per guide.
GuidesToXml(guides) ==
    Element("guides", NoAttrs, [i \in 1..Len(guides) |-> GuideToXml(guides[i], "guide")])

RECURSIVE WritePages(_, _, _)
\* writer.enumPages(...) of Filter::saveSettings: the callback, pair by pair.
WritePages(s, filter_el, enum) ==
    IF enum = <<>> THEN filter_el
    ELSE WritePages(s, WritePageSettings(s, filter_el, Head(enum)[1], Head(enum)[2]),
                    Tail(enum))

\* Filter::saveSettings(writer, doc): the element it returns.
SaveSettings(s, enum) ==
    LET filter_el == Element("page-layout",
                             [showMiddleRect |->
                                IF IsShowingMiddleRectEnabled(s) THEN <<"1">> ELSE <<"0">>],
                             <<>>)
        with_guides == IF s.guides # <<>>
                       THEN AppendChild(filter_el, GuidesToXml(s.guides))
                       ELSE filter_el
    IN  WritePages(s, with_guides, enum)

RECURSIVE LoadGuidesWrongTest(_, _)
\* Faulty variant: the guides loop with the name test the wrong way round.
LoadGuidesWrongTest(s, nodes) ==
    IF nodes = <<>> THEN s
    ELSE LET node == Head(nodes)
         IN  IF ~IsElement(node) \/ node.tag = "guide"
             THEN LoadGuidesWrongTest(s, Tail(nodes))
             ELSE LoadGuidesWrongTest([s EXCEPT !.guides = Append(@, GuideFromXml(node))],
                                      Tail(nodes))

RECURSIVE LoadGuides(_, _)
\* The guides loop of Filter::loadSettings over the children of guides_el.
LoadGuides(s, nodes) ==
    IF nodes = <<>> THEN s
    ELSE LET node == Head(nodes)
         IN  IF ~IsElement(node) \/ node.tag # "guide"
             THEN LoadGuides(s, Tail(nodes))
             ELSE LoadGuides([s EXCEPT !.guides = Append(@, GuideFromXml(node))],
                             Tail(nodes))

\* Faulty variant: the toggle is on unless the attribute says "0".
LoadToggleUnlessZero(s, filter_el) ==
    EnableShowingMiddleRect(s, Attribute(filter_el, "showMiddleRect") # <<"0">>)

\* The toggle line of Filter::loadSettings.
LoadToggle(s, filter_el) ==
    EnableShowingMiddleRect(s, Attribute(filter_el, "showMiddleRect") = <<"1">>)

\* Faulty variant: a page element for a key that already has a record is
\* passed over, so the first element for a key wins.
LoadPageKeepFirst(s, reader, node) ==
    IF ~IsElement(node) THEN s
    ELSE IF node.tag # "page" THEN s
    ELSE IF ~ToIntOk(Attribute(node, "id")) THEN s
    ELSE LET page_id == ReaderPageId(reader, ToInt(Attribute(node, "id")))
             params_el == NamedItem(node, "params")
         IN  IF page_id = NullPageId THEN s
             ELSE IF IsNull(params_el) THEN s
             ELSE IF ~IsParamsNull(s, page_id) THEN s
             ELSE SetPageParams(s, page_id, ParamsFromXml(params_el))

\* One pass of the page loop of Filter::loadSettings: the store after `node`.
LoadPage(s, reader, node) ==
    IF ~IsElement(node) THEN s
    ELSE IF node.tag # "page" THEN s
    ELSE IF ~ToIntOk(Attribute(node, "id")) THEN s
    ELSE LET page_id == ReaderPageId(reader, ToInt(Attribute(node, "id")))
             params_el == NamedItem(node, "params")
         IN  IF page_id = NullPageId THEN s
             ELSE IF IsNull(params_el) THEN s
             ELSE SetPageParams(s, page_id, ParamsFromXml(params_el))

RECURSIVE LoadPagesStopping(_, _, _)
\* Faulty variant: the page loop that returns, instead of continuing, at a
\* page element it cannot load.
LoadPagesStopping(s, reader, nodes) ==
    IF nodes = <<>> THEN s
    ELSE LET node == Head(nodes)
             unloadable ==
                 /\ IsElement(node) /\ node.tag = "page"
                 /\ \/ ~ToIntOk(Attribute(node, "id"))
                    \/ ReaderPageId(reader, ToInt(Attribute(node, "id"))) = NullPageId
                    \/ IsNull(NamedItem(node, "params"))
         IN  IF unloadable THEN s
             ELSE LoadPagesStopping(LoadPage(s, reader, node), reader, Tail(nodes))

RECURSIVE LoadPages(_, _, _)
\* The page loop of Filter::loadSettings over the children of filter_el.
LoadPages(s, reader, nodes) ==
    IF nodes = <<>> THEN s
    ELSE LoadPages(LoadPage(s, reader, Head(nodes)), reader, Tail(nodes))

\* Faulty variant: loadSettings without the clear() it starts with.
LoadSettingsNoClear(s, reader, filters_el) ==
    LET filter_el == NamedItem(filters_el, "page-layout")
        toggled == LoadToggle(s, filter_el)
        guides_el == NamedItem(filter_el, "guides")
        guided == IF ~IsNull(guides_el) THEN LoadGuides(toggled, guides_el.children)
                  ELSE toggled
    IN  LoadPages(guided, reader, filter_el.children)

\* Filter::loadSettings(reader, filters_el): the store it leaves.
LoadSettings(s, reader, filters_el) ==
    LET cleared == SettingsClear(s)
        filter_el == NamedItem(filters_el, "page-layout")
        toggled == LoadToggle(cleared, filter_el)
        guides_el == NamedItem(filter_el, "guides")
        guided == IF ~IsNull(guides_el) THEN LoadGuides(toggled, guides_el.children)
                  ELSE toggled
    IN  LoadPages(guided, reader, filter_el.children)

\* Faulty variant: setContentBox that replaces the record by the one made
\* on demand, whether or not the page had a record.
SetContentBoxResetting(s, page_id, content_size_mm) ==
    SetPageParams(s, page_id,
                  Params(DefaultHardMarginsMM, NullRect, NullRect, content_size_mm,
                         DefaultAlignment, FALSE))

\* Filter::setContentBox(page_id, xform, content_rect), with the size that
\* Utils::calcRectSizeMM(xform, content_rect) gives.
SetContentBox(s, page_id, content_size_mm) == SetContentSizeMM(s, page_id, content_size_mm)

\* Faulty variant: invalidateContentBox that invalidates every record.
InvalidateContentBoxAll(s, page_id) ==
    [s EXCEPT !.items = [k \in DOMAIN s.items |->
                           [s.items[k] EXCEPT !.contentSizeMM = InvalidSize]]]

\* Filter::invalidateContentBox(page_id)
InvalidateContentBox(s, page_id) == InvalidateContentSize(s, page_id)

\* Faulty variant: the right and bottom margins are left unconverted.
SeedParamsHalfConverted(page_info, defaultParams) ==
    LET margins == defaultParams.hardMargins
        lt == Convert(margins[1], margins[2], defaultParams.units, "MILLIMETRES",
                      page_info.dpi)
    IN  Params(Margins(lt[1], lt[2], margins[3], margins[4]), NullRect, NullRect,
               InvalidSize, defaultParams.alignment, defaultParams.autoMargins)

\* The record Filter::loadDefaultSettings builds from the global defaults
\* and the page's resolution.
SeedParams(page_info, defaultParams) ==
    LET margins == defaultParams.hardMargins
        lt == Convert(margins[1], margins[2], defaultParams.units, "MILLIMETRES",
                      page_info.dpi)
        rb == Convert(margins[3], margins[4], defaultParams.units, "MILLIMETRES",
                      page_info.dpi)
    IN  Params(Margins(lt[1], lt[2], rb[1], rb[2]), NullRect, NullRect, InvalidSize,
               defaultParams.alignment, defaultParams.autoMargins)

\* Faulty variant: loadDefaultSettings gated on the record having no
\* content size rather than on there being no record.
LoadDefaultSettingsGatedOnContent(s, page_info, defaultParams) ==
    IF /\ ~IsParamsNull(s, page_info.id)
       /\ IsValidSize(s.items[page_info.id].contentSizeMM)
    THEN s
    ELSE SetPageParams(s, page_info.id, SeedParams(page_info, defaultParams))

\* Faulty variant: loadDefaultSettings without the isParamsNull test.
LoadDefaultSettingsUnguarded(s, page_info, defaultParams) ==
    SetPageParams(s, page_info.id, SeedParams(page_info, defaultParams))

\* Filter::loadDefaultSettings(page_info)
LoadDefaultSettings(s, page_info, defaultParams) ==
    IF ~IsParamsNull(s, page_info.id) THEN s
    ELSE SetPageParams(s, page_info.id, SeedParams(page_info, defaultParams))

\* Faulty variant: checkReadyForOutput that passes no page to ignore.
CheckReadyForOutputNoIgnore(s, pages, ignore) ==
    CheckEverythingDefined(s, ToPageSequence(pages), <<>>)

\* Filter::checkReadyForOutput(pages, ignore)
CheckReadyForOutput(s, pages, ignore) ==
    LET snapshot == ToPageSequence(pages)
    IN  CheckEverythingDefined(s, snapshot, ignore)

\* PageOrderOption(name, provider)
PageOrderOption(name, provider) == [name |-> name, provider |-> provider]

\* Faulty variant: the width option is given the deviation provider.
PageOrderOptionsMiswired ==
    << PageOrderOption("Natural order", NullProvider),
       PageOrderOption("Order by increasing width", OrderByDeviationProvider),
       PageOrderOption("Order by increasing height", OrderByHeightProvider),
       PageOrderOption("Order by decreasing deviation", OrderByDeviationProvider) >>

\* Filter::Filter: m_pageOrderOptions after the four emplace_back calls.
PageOrderOptions ==
    << PageOrderOption("Natural order", NullProvider),
       PageOrderOption("Order by increasing width", OrderByWidthProvider),
       PageOrderOption("Order by increasing height", OrderByHeightProvider),
       PageOrderOption("Order by decreasing deviation", OrderByDeviationProvider) >>

\* (unsigned) n for a 32-bit int n, as its high and low 16-bit halves.
ToUnsigned(n) == <<(n \div 65536) % 65536, n % 65536>>

\* a < b for two unsigned values given as halves
UnsignedLess(a, b) == a[1] < b[1] \/ (a[1] = b[1] /\ a[2] < b[2])

\* Faulty variant: the bound tested without the conversion to unsigned.
AssertedBoundSigned(option, size) == option < size

\* The condition Filter::selectPageOrder asserts:
\* (unsigned) option < m_pageOrderOptions.size()
AssertedBound(option, size) == UnsignedLess(ToUnsigned(option), ToUnsigned(size))

\* Faulty variant: the option read one place further down the list.
SelectedOptionOffByOne(options, selected) ==
    options[IF selected + 2 <= Len(options) THEN selected + 2 ELSE 1]

\* The option in use: pageOrderOptions()[selectedPageOrder()], the list
\* being indexed from 0 in the code and from 1 here.
SelectedOption(options, selected) == options[selected + 1]

\* Faulty variant: a task built over a store of its own (new Settings).
CreateTaskOwnStore(page_id) ==
    [kind |-> "Task", page_id |-> page_id, m_settings |-> "own"]

\* Filter::createTask(page_id, next_task, batch, debug): the task holds the
\* stage's m_settings pointer, so its store is the stage's ("shared").
CreateTask(page_id) ==
    [kind |-> "Task", page_id |-> page_id, m_settings |-> "shared"]

\* Filter::createCacheDrivenTask(next_task)
CreateCacheDrivenTask ==
    [kind |-> "CacheDrivenTask", page_id |-> NullPageId, m_settings |-> "shared"]

(***************************************************************************)
(* Inputs the operations are driven with.                                  *)
(***************************************************************************)
ParamsA == Params(Margins(100, 100, 100, 100), <<10, 10, 400, 600>>, <<0, 0, 500, 700>>,
                  <<340, 510>>, [vert |-> "top", hor |-> "left"], FALSE)

ParamsB == Params(Margins(10, 20, 30, 40), NullRect, NullRect, InvalidSize,
                  [vert |-> "vcenter", hor |-> "hcenter"], TRUE)

ParamsInputs == {ParamsA, ParamsB}

ContentSizes == {<<210, 297>>}

GuideV == [orientation |-> "vert", position |-> 50]

GuideH == [orientation |-> "hor", position |-> 120]

GuideInputs == {GuideV, GuideH}

\* DefaultParamsProvider::getInstance()->getParams(): the global defaults,
\* 0.5in on every side, or 300/600/900/1200 px.
DefaultsInches == [units |-> "INCHES", hardMargins |-> Margins(5, 5, 5, 5),
                   alignment |-> [vert |-> "top", hor |-> "left"], autoMargins |-> FALSE]

DefaultsPixels == [units |-> "PIXELS", hardMargins |-> Margins(3000, 6000, 9000, 12000),
                   alignment |-> [vert |-> "vcenter", hor |-> "hcenter"],
                   autoMargins |-> TRUE]

DefaultConfigs == {DefaultsInches, DefaultsPixels}

\* PageInfo of a page: its key and the resolution of its image.
PageInfo(page_id) == [id |-> page_id, dpi |-> IF page_id = 1 THEN 300 ELSE 600]

\* The relinkers tried: the identity, and the ones that move one key to
\* another key or to the null key.
Relinkers ==
    {[k \in Pages |-> k]}
    \cup {[k \in Pages |-> IF k = old THEN new ELSE k] :
            old \in Pages, new \in Pages \cup {NullPageId}}

\* The projects checkReadyForOutput is asked about: the stage's own, and
\* the one-page projects.
Projects(pages) == {pages} \cup {<<p>> : p \in Pages}

\* The ignore argument: the null pointer, or a pointer to a page key.
Ignores == {<<>>} \cup {<<p>> : p \in Pages}

\* The options selectPageOrder is called with: the four of the list, and
\* one on either side of it.
OptionInputs == -1..4

\* What the deviation collaborator may answer: a score per page.
ScoreInputs == [Pages -> 0..1]

\* The writer numbers the pages from base + 1.
IdBases == {0, 8}

\* The reader that resolves the ids base + 1 .. base + NumPages to q[1] ..
\* q[NumPages]; every other id is unknown to it.
Reader(base, q) == {<<base + i, q[i]>> : i \in 1..NumPages}

\* The readers tried: per numbering, the one of the unchanged project, the
\* ones of a project that has lost one page, and one that resolves every id
\* to page 1.
Readers ==
    UNION {{Reader(base, [i \in 1..NumPages |-> i])}
           \cup {Reader(base, [i \in 1..NumPages |-> IF i = p THEN NullPageId ELSE i]) :
                   p \in Pages}
           \cup {Reader(base, [i \in 1..NumPages |-> 1])} : base \in IdBases}

(***************************************************************************)
(* Documents loadSettings is given, besides the ones saveSettings wrote.   *)
(***************************************************************************)
PageEl(id, children) == Element("page", [id |-> id], children)

GoodPage(id, p) == PageEl(IntToStr(id), << ParamsToXml(p, "params") >>)

\* The <filters> element a project file holds, with these children.
Filters(children) == Element("filters", NoAttrs, children)

\* Well-formed pages around every kind of malformed one; guides among
\* children that are no guides.
DocMalformed ==
    Filters(<< Element("fix-orientation", NoAttrs, <<>>),
               Element("page-layout", [showMiddleRect |-> <<"1">>],
                 << Element("guides", NoAttrs,
                            << GuideToXml(GuideV, "guide"), TextNode,
                               Element("note", NoAttrs, <<>>),
                               GuideToXml(GuideH, "guide") >>),
                    TextNode,
                    GoodPage(1, ParamsA),
                    PageEl(<<"x">>, << ParamsToXml(ParamsB, "params") >>),
                    Element("image", [id |-> <<"2">>],
                            << ParamsToXml(ParamsA, "params") >>),
                    PageEl(<<"2">>, <<>>),
                    PageEl(<<"7">>, << ParamsToXml(ParamsA, "params") >>),
                    Element("page", NoAttrs, << ParamsToXml(ParamsA, "params") >>),
                    PageEl(<<"1", "a">>, << ParamsToXml(ParamsB, "params") >>),
                    GoodPage(2, ParamsB) >>) >>)

\* Several page elements with the same id.
DocDuplicates ==
    Filters(<< Element("page-layout", [showMiddleRect |-> <<"0">>],
                 << GoodPage(1, ParamsA), GoodPage(2, ParamsA), GoodPage(1, ParamsB) >>) >>)

\* No page-layout container at all.
DocNoContainer == Filters(<< Element("deskew", NoAttrs, <<>>) >>)

\* No toggle attribute, an empty guides container, two-digit ids.
DocNoToggle ==
    Filters(<< Element("page-layout", NoAttrs,
                 << Element("guides", NoAttrs, <<>>),
                    GoodPage(9, ParamsB), GoodPage(10, ParamsA) >>) >>)

\* A toggle that is not "1".
DocOddToggle ==
    Filters(<< Element("page-layout", [showMiddleRect |-> <<"t", "r", "u", "e">>],
                 << GoodPage(2, ParamsA) >>) >>)

SampleDocs == <<DocMalformed, DocDuplicates, DocNoContainer, DocNoToggle, DocOddToggle>>

ReaderOfProject(base) == Reader(base, [i \in 1..NumPages |-> i])

ReaderToFirst(base) == Reader(base, [i \in 1..NumPages |-> 1])

\* The loads tried: <<reader, index in SampleDocs>>.
LoadCases ==
    {<<ReaderOfProject(0), 1>>, <<ReaderToFirst(0), 1>>,
     <<ReaderOfProject(0), 2>>, <<ReaderToFirst(0), 2>>,
     <<ReaderOfProject(0), 3>>,
     <<ReaderOfProject(8), 4>>,
     <<ReaderOfProject(0), 5>>}

(***************************************************************************)
(* The state machine.  Next is every operation of the stage and of its     *)
(* collaborators on the shared store; SpecStore, SpecProject, SpecPersist, *)
(* SpecLoad, SpecReady, SpecTasks and SpecOrder drive the same machine     *)
(* with the per-page operations, the project-restructuring operations, a   *)
(* save and the load of what it wrote, the load of other project files,    *)
(* the readiness check, the tasks, and the page order.                     *)
(***************************************************************************)
VARIABLES
    m_settings,  \* the store the stage, its tasks and its widget share
    m_pages,     \* the project's pages, in natural order
    m_pageOrderOptions,   \* the page-order options the stage offers
    m_selectedPageOrder,  \* the index of the option in use
    tasks,       \* the tasks created and not yet run
    ret,         \* what the last call returned
    last         \* the last call and its arguments

vars == <<m_settings, m_pages, m_pageOrderOptions, m_selectedPageOrder, tasks, ret, last>>

\* What the operations on the store and on the project leave alone.
stage == <<m_pageOrderOptions, m_selectedPageOrder, tasks>>

\* ret: el, the element saveSettings returned; params, the copy
\* getPageParams returned (<<>> for none); alias, the key of the stored
\* record the returned Params is the same object as (the null key: none).
\* ready, what checkReadyForOutput returned; order, the page sequence as
\* sorted under the option in use; seen, <<the store a task read>>.
NoRet ==
    [el |-> NullElement, params |-> <<>>, alias |-> NullPageId, ready |-> FALSE,
     order |-> <<>>, seen |-> <<>>]

\* last: op, the operation; page, the page key it was called for; had,
\* whether that page had a record before the call; base, the writer's
\* numbering; reader, the reader; doc, the index of the document loaded in
\* SampleDocs (0: the element saveSettings had just returned); kind, what
\* sort of relinker was given; arg, the further arguments of the call.
Call(op, page, had) ==
    [op |-> op, page |-> page, had |-> had, base |-> 0, reader |-> {}, doc |-> 0,
     kind |-> "", arg |-> <<>>]

\* Filter::Filter: a new stage over the project's pages.
Init ==
    /\ m_settings = NewSettings
    /\ m_pages = [i \in 1..NumPages |-> i]
    /\ m_pageOrderOptions = PageOrderOptions
    /\ m_selectedPageOrder = 0
    /\ tasks = {}
    /\ ret = NoRet
    /\ last = Call("Filter", NullPageId, FALSE)

\* Settings::setPageParams(page_id, params), as the options widget and the
\* tasks call it on the shared store.
SetParams(page_id, params) ==
    /\ m_settings' = SetPageParams(m_settings, page_id, params)
    /\ ret' = NoRet
    /\ last' = Call("setPageParams", page_id, ~IsParamsNull(m_settings, page_id))
    /\ UNCHANGED <<m_pages, stage>>

\* What a caller of Settings::getPageParams(page_id) holds afterwards.
GetParamsResult(s, page_id) ==
    [NoRet EXCEPT !.params = GetPageParams(s, page_id)]

GetParams(page_id) ==
    /\ ret' = GetParamsResult(m_settings, page_id)
    /\ last' = Call("getPageParams", page_id, ~IsParamsNull(m_settings, page_id))
    /\ UNCHANGED <<m_settings, m_pages, stage>>

\* The caller changes the Params it was returned.
MutateReturned(params) ==
    /\ last.op = "getPageParams"
    /\ ret.params # <<>>
    /\ ret.params[1] # params
    /\ ret' = [ret EXCEPT !.params = <<params>>]
    /\ m_settings' = IF ret.alias # NullPageId
                     THEN SetPageParams(m_settings, ret.alias, params)
                     ELSE m_settings
    /\ last' = Call("mutateReturned", last.page, TRUE)
    /\ UNCHANGED <<m_pages, stage>>

\* arg: the record the page had before the call, <<>> for none.
SetContentBoxCall(page_id, content_size_mm) ==
    /\ m_settings' = SetContentBox(m_settings, page_id, content_size_mm)
    /\ ret' = NoRet
    /\ last' = [Call("setContentBox", page_id, ~IsParamsNull(m_settings, page_id))
                  EXCEPT !.arg = GetPageParams(m_settings, page_id)]
    /\ UNCHANGED <<m_pages, stage>>

\* kind: "afterSet" when the call before was setContentBox for the same
\* page; arg: then, the record the page had before that call.
InvalidateContentBoxCall(page_id) ==
    /\ m_settings' = InvalidateContentBox(m_settings, page_id)
    /\ ret' = NoRet
    /\ last' = IF last.op = "setContentBox" /\ last.page = page_id
               THEN [Call("invalidateContentBox", page_id, TRUE)
                       EXCEPT !.kind = "afterSet", !.arg = last.arg]
               ELSE Call("invalidateContentBox", page_id, ~IsParamsNull(m_settings, page_id))
    /\ UNCHANGED <<m_pages, stage>>

\* kind: "again" when the call before was the same call for the same page.
LoadDefaultSettingsCall(page_id, defaultParams) ==
    /\ m_settings' = LoadDefaultSettings(m_settings, PageInfo(page_id), defaultParams)
    /\ ret' = NoRet
    /\ last' = [Call("loadDefaultSettings", page_id, ~IsParamsNull(m_settings, page_id))
                  EXCEPT !.kind = IF last.op = "loadDefaultSettings" /\ last.page = page_id
                                  THEN "again" ELSE ""]
    /\ UNCHANGED <<m_pages, stage>>

\* Filter::selected(); had: some record was of a page missing from the project.
Selected ==
    /\ m_settings' = FilterSelected(m_settings, m_pages)
    /\ ret' = NoRet
    /\ last' = Call("selected", NullPageId, ~(DOMAIN m_settings.items \subseteq SeqRange(m_pages)))
    /\ UNCHANGED <<m_pages, stage>>

\* The relinker keeps every key in `keys` but `page_id`, which it drops.
DropsOnly(relinker, keys, page_id) ==
    /\ page_id \in keys
    /\ relinker[page_id] = NullPageId
    /\ \A k \in keys \ {page_id} : relinker[k] = k

IsIdentityOn(relinker, keys) == \A k \in keys : relinker[k] = k

\* Faulty variant: performRelinking that also purges, as selected() does,
\* the records of the pages missing from the project.
PerformRelinkingPurging(relinker) ==
    LET keys == DOMAIN m_settings.items
        dropped == {k \in keys : DropsOnly(relinker, keys, k)}
    IN  /\ m_settings' = FilterSelected(FilterPerformRelinking(m_settings, relinker), m_pages)
        /\ ret' = NoRet
        /\ last' = [Call("performRelinking",
                         IF dropped = {} THEN NullPageId ELSE CHOOSE k \in dropped : TRUE,
                         keys # {})
                      EXCEPT !.kind = IF IsIdentityOn(relinker, keys) THEN "identity"
                                      ELSE IF dropped # {} THEN "drop"
                                      ELSE "other"]
        /\ UNCHANGED <<m_pages, stage>>

\* Filter::performRelinking(relinker); had: the store held some record;
\* page: the one stored key the relinker drops, when it keeps the others.
PerformRelinking(relinker) ==
    LET keys == DOMAIN m_settings.items
        dropped == {k \in keys : DropsOnly(relinker, keys, k)}
    IN  /\ m_settings' = FilterPerformRelinking(m_settings, relinker)
        /\ ret' = NoRet
        /\ last' = [Call("performRelinking",
                         IF dropped = {} THEN NullPageId ELSE CHOOSE k \in dropped : TRUE,
                         keys # {})
                      EXCEPT !.kind = IF IsIdentityOn(relinker, keys) THEN "identity"
                                      ELSE IF dropped # {} THEN "drop"
                                      ELSE "other"]
        /\ UNCHANGED <<m_pages, stage>>

\* Filter::saveSettings(writer, doc)
SaveSettingsCall(base) ==
    /\ ret' = [NoRet EXCEPT !.el = SaveSettings(m_settings, EnumPages(m_pages, base))]
    /\ last' = [Call("saveSettings", NullPageId, FALSE) EXCEPT !.base = base]
    /\ UNCHANGED <<m_settings, m_pages, stage>>

\* What a load records: had, the store held a record of a page that has
\* none afterwards; kind, "guidesDropped" when it held guides and holds
\* none afterwards.
Loaded(old, new, reader, doc) ==
    [Call("loadSettings", NullPageId,
          \E k \in DOMAIN old.items : k \notin DOMAIN new.items)
       EXCEPT !.reader = reader, !.doc = doc,
              !.kind = IF old.guides # <<>> /\ new.guides = <<>>
                       THEN "guidesDropped" ELSE ""]

\* Filter::loadSettings(reader, filters_el) on the project file that holds
\* the element saveSettings has just returned.
LoadSaved(reader) ==
    /\ last.op = "saveSettings"
    /\ m_settings' = LoadSettings(m_settings, reader, Filters(<<ret.el>>))
    /\ last' = Loaded(m_settings, m_settings', reader, 0)
    /\ ret' = NoRet
    /\ UNCHANGED <<m_pages, stage>>

\* Filter::loadSettings(reader, filters_el) on another project file.
LoadDoc(reader, doc) ==
    /\ m_settings' = LoadSettings(m_settings, reader, SampleDocs[doc])
    /\ last' = Loaded(m_settings, m_settings', reader, doc)
    /\ ret' = NoRet
    /\ UNCHANGED <<m_pages, stage>>

\* The user adds a guide: m_settings->guides() is the list itself.
AddGuide(guide) ==
    /\ Len(m_settings.guides) < MaxGuides
    /\ m_settings' = [m_settings EXCEPT !.guides = Append(@, guide)]
    /\ ret' = NoRet
    /\ last' = Call("addGuide", NullPageId, FALSE)
    /\ UNCHANGED <<m_pages, stage>>

\* The user removes the guides.
ClearGuides ==
    /\ m_settings.guides # <<>>
    /\ m_settings' = [m_settings EXCEPT !.guides = <<>>]
    /\ ret' = NoRet
    /\ last' = Call("clearGuides", NullPageId, FALSE)
    /\ UNCHANGED <<m_pages, stage>>

\* Settings::enableShowingMiddleRect(state), from the options widget.
ToggleMiddleRect(state) ==
    /\ m_settings' = EnableShowingMiddleRect(m_settings, state)
    /\ ret' = NoRet
    /\ last' = Call("enableShowingMiddleRect", NullPageId, FALSE)
    /\ UNCHANGED <<m_pages, stage>>

\* The project loses a page (ProjectPages::removePages).
RemovePage(i) ==
    /\ i \in 1..Len(m_pages)
    /\ m_pages' = [j \in 1..(Len(m_pages) - 1) |-> IF j < i THEN m_pages[j] ELSE m_pages[j + 1]]
    /\ ret' = NoRet
    /\ last' = Call("removePages", m_pages[i], ~IsParamsNull(m_settings, m_pages[i]))
    /\ UNCHANGED <<m_settings, stage>>

\* The project gains a page again (ProjectPages::insertImage).
InsertPage(page_id) ==
    /\ page_id \notin SeqRange(m_pages)
    /\ m_pages' = Append(m_pages, page_id)
    /\ ret' = NoRet
    /\ last' = Call("insertImage", page_id, ~IsParamsNull(m_settings, page_id))
    /\ UNCHANGED <<m_settings, stage>>

\* Filter::checkReadyForOutput(pages, ignore); arg: <<pages, ignore>>.
CheckReadyForOutputCall(pages, ignore) ==
    /\ ret' = [NoRet EXCEPT !.ready = CheckReadyForOutput(m_settings, pages, ignore)]
    /\ last' = [Call("checkReadyForOutput", NullPageId, FALSE)
                  EXCEPT !.arg = <<pages, ignore>>]
    /\ UNCHANGED <<m_settings, m_pages, stage>>

\* Filter::selectPageOrder(option); arg: <<option>>.  A call that breaks
\* the asserted bound ends the program where assertions are compiled in
\* (op "abort") and stores the option where they are not (ndebug).
SelectPageOrder(option, ndebug) ==
    /\ IF AssertedBound(option, Len(m_pageOrderOptions)) \/ ndebug
       THEN /\ m_selectedPageOrder' = option
            /\ last' = [Call("selectPageOrder", NullPageId, FALSE) EXCEPT !.arg = <<option>>]
       ELSE /\ m_selectedPageOrder' = m_selectedPageOrder
            /\ last' = [Call("abort", NullPageId, FALSE) EXCEPT !.arg = <<option>>]
    /\ ret' = NoRet
    /\ UNCHANGED <<m_settings, m_pages, m_pageOrderOptions, tasks>>

\* The thumbnail view orders the project's pages by the option in use
\* (pageOrderOptions()[selectedPageOrder()]); scores: what the deviation
\* collaborator answers per page; arg: <<scores>>.
OrderPages(scores) ==
    /\ m_selectedPageOrder \in 0..(Len(m_pageOrderOptions) - 1)
    /\ ret' = [NoRet EXCEPT !.order =
                 SortPages(m_pages,
                           SelectedOption(m_pageOrderOptions, m_selectedPageOrder).provider,
                           m_settings, scores)]
    /\ last' = [Call("orderPages", NullPageId, FALSE) EXCEPT !.arg = <<scores>>]
    /\ UNCHANGED <<m_settings, m_pages, stage>>

\* Filter::createTask(page_id, next_task, batch, debug)
CreateTaskCall(page_id) ==
    /\ Cardinality(tasks) < MaxTasks
    /\ tasks' = tasks \cup {CreateTask(page_id)}
    /\ ret' = NoRet
    /\ last' = Call("createTask", page_id, ~IsParamsNull(m_settings, page_id))
    /\ UNCHANGED <<m_settings, m_pages, m_pageOrderOptions, m_selectedPageOrder>>

\* Filter::createCacheDrivenTask(next_task)
CreateCacheDrivenTaskCall ==
    /\ Cardinality(tasks) < MaxTasks
    /\ tasks' = tasks \cup {CreateCacheDrivenTask}
    /\ ret' = NoRet
    /\ last' = Call("createCacheDrivenTask", NullPageId, FALSE)
    /\ UNCHANGED <<m_settings, m_pages, m_pageOrderOptions, m_selectedPageOrder>>

\* The store a task reads through its m_settings.
TaskSettings(t) == IF t.m_settings = "shared" THEN m_settings ELSE NewSettings

\* The operations that write to the store.
MutationOps ==
    {"setPageParams", "setContentBox", "invalidateContentBox", "performRelinking",
     "loadSettings"}

\* Task::process / CacheDrivenTask::process: the task reads its store.
\* kind: the kind of task; had: the call before this one wrote to the
\* store; arg: <<that call>> then.
RunTask(t) ==
    /\ t \in tasks
    /\ tasks' = tasks \ {t}
    /\ ret' = [NoRet EXCEPT !.seen = <<TaskSettings(t)>>]
    /\ last' = [Call("process", t.page_id, last.op \in MutationOps)
                  EXCEPT !.kind = t.kind,
                         !.arg = IF last.op \in MutationOps THEN <<last.op>> ELSE <<>>]
    /\ UNCHANGED <<m_settings, m_pages, m_pageOrderOptions, m_selectedPageOrder>>

Next ==
    \/ \E page_id \in Pages, params \in ParamsInputs : SetParams(page_id, params)
    \/ \E page_id \in Pages : GetParams(page_id)
    \/ \E params \in ParamsInputs : MutateReturned(params)
    \/ \E page_id \in Pages, size \in ContentSizes : SetContentBoxCall(page_id, size)
    \/ \E page_id \in Pages : InvalidateContentBoxCall(page_id)
    \/ \E page_id \in Pages, d \in DefaultConfigs : LoadDefaultSettingsCall(page_id, d)
    \/ Selected
    \/ \E relinker \in Relinkers : PerformRelinking(relinker)
    \/ \E base \in IdBases : SaveSettingsCall(base)
    \/ \E reader \in Readers : LoadSaved(reader)
    \/ \E c \in LoadCases : LoadDoc(c[1], c[2])
    \/ \E guide \in GuideInputs : AddGuide(guide)
    \/ ClearGuides
    \/ \E state \in BOOLEAN : ToggleMiddleRect(state)
    \/ \E i \in 1..NumPages : RemovePage(i)
    \/ \E page_id \in Pages : InsertPage(page_id)
    \/ \E pages \in Projects(m_pages), ignore \in Ignores :
          CheckReadyForOutputCall(pages, ignore)
    \/ \E option \in OptionInputs, ndebug \in BOOLEAN :
          last.op # "abort" /\ SelectPageOrder(option, ndebug)
    \/ \E scores \in ScoreInputs : OrderPages(scores)
    \/ \E page_id \in Pages : CreateTaskCall(page_id)
    \/ CreateCacheDrivenTaskCall
    \/ \E t \in tasks : RunTask(t)

Spec == Init /\ [][Next]_vars

\* The store under the per-page operations of the stage, its widget and
\* its tasks.
NextStore ==
    \/ \E page_id \in Pages, params \in ParamsInputs : SetParams(page_id, params)
    \/ \E page_id \in Pages : GetParams(page_id)
    \/ \E params \in ParamsInputs : MutateReturned(params)
    \/ \E page_id \in Pages, size \in ContentSizes : SetContentBoxCall(page_id, size)
    \/ \E page_id \in Pages : InvalidateContentBoxCall(page_id)
    \/ \E page_id \in Pages, d \in DefaultConfigs : LoadDefaultSettingsCall(page_id, d)

SpecStore == Init /\ [][NextStore]_vars

\* The store while the project is restructured.
NextProject ==
    \/ \E page_id \in Pages, params \in ParamsInputs : SetParams(page_id, params)
    \/ Selected
    \/ \E relinker \in Relinkers : PerformRelinking(relinker)
    \/ \E guide \in GuideInputs : AddGuide(guide)
    \/ \E state \in BOOLEAN : ToggleMiddleRect(state)
    \/ \E i \in 1..NumPages : RemovePage(i)

SpecProject == Init /\ [][NextProject]_vars

\* The store while the project is saved and read back.
NextPersist ==
    \/ \E page_id \in Pages, params \in ParamsInputs : SetParams(page_id, params)
    \/ \E guide \in GuideInputs : AddGuide(guide)
    \/ ClearGuides
    \/ \E state \in BOOLEAN : ToggleMiddleRect(state)
    \/ \E i \in 1..NumPages : RemovePage(i)
    \/ \E base \in IdBases : SaveSettingsCall(base)
    \/ \E reader \in Readers : LoadSaved(reader)

SpecPersist == Init /\ [][NextPersist]_vars

\* The store while project files are loaded into it.
NextLoad ==
    \/ \E page_id \in Pages, params \in ParamsInputs : SetParams(page_id, params)
    \/ \E guide \in GuideInputs : AddGuide(guide)
    \/ \E state \in BOOLEAN : ToggleMiddleRect(state)
    \/ \E c \in LoadCases : LoadDoc(c[1], c[2])

SpecLoad == Init /\ [][NextLoad]_vars

\* The store while the pipeline asks whether the stage is ready for output.
NextReady ==
    \/ \E page_id \in Pages, params \in ParamsInputs : SetParams(page_id, params)
    \/ \E page_id \in Pages, size \in ContentSizes : SetContentBoxCall(page_id, size)
    \/ \E page_id \in Pages : InvalidateContentBoxCall(page_id)
    \/ \E i \in 1..NumPages : RemovePage(i)
    \/ \E pages \in Projects(m_pages), ignore \in Ignores :
          CheckReadyForOutputCall(pages, ignore)

SpecReady == Init /\ [][NextReady]_vars

\* The store while tasks are created, the store changes, and the tasks run.
NextTasks ==
    \/ \E page_id \in Pages, params \in ParamsInputs : SetParams(page_id, params)
    \/ \E page_id \in Pages, size \in ContentSizes : SetContentBoxCall(page_id, size)
    \/ \E page_id \in Pages : InvalidateContentBoxCall(page_id)
    \/ \E relinker \in Relinkers : PerformRelinking(relinker)
    \/ LoadDoc(ReaderOfProject(0), 2)
    \/ \E page_id \in Pages : CreateTaskCall(page_id)
    \/ CreateCacheDrivenTaskCall
    \/ \E t \in tasks : RunTask(t)

SpecTasks == Init /\ [][NextTasks]_vars

\* The stage while the page order is chosen and the pages are ordered; a
\* program that has aborted takes no further step.
NextOrder ==
    /\ last.op # "abort"
    /\ \/ \E page_id \in Pages, params \in ParamsInputs : SetParams(page_id, params)
       \/ \E page_id \in Pages, size \in ContentSizes : SetContentBoxCall(page_id, size)
       \/ \E i \in 1..NumPages : RemovePage(i)
       \/ \E page_id \in Pages : InsertPage(page_id)
       \/ \E option \in OptionInputs, ndebug \in BOOLEAN : SelectPageOrder(option, ndebug)
       \/ \E scores \in ScoreInputs : OrderPages(scores)

SpecOrder == Init /\ [][NextOrder]_vars

(***************************************************************************)
(* What a document says, read off the tree without the loader.             *)
(***************************************************************************)
\* The document a load step has just read.
DocLoaded == IF last'.doc = 0 THEN Filters(<<ret.el>>) ELSE SampleDocs[last'.doc]

IsLoad == last'.op = "loadSettings"

\* A load of the element saveSettings has just returned.
IsLoadSaved == last.op = "saveSettings" /\ last'.op = "loadSettings" /\ last'.doc = 0

IsPageElement(node) == IsElement(node) /\ node.tag = "page"

KeyOf(node, reader) == ReaderPageId(reader, ToInt(Attribute(node, "id")))

HasParams(node) == \E i \in 1..Len(node.children) :
                      IsElement(node.children[i]) /\ node.children[i].tag = "params"

WellFormedPage(node, reader) ==
    /\ IsPageElement(node)
    /\ ToIntOk(Attribute(node, "id"))
    /\ KeyOf(node, reader) # NullPageId
    /\ HasParams(node)

\* The indices of the well-formed page elements among `nodes`.
WellFormedIn(nodes, reader) == {i \in 1..Len(nodes) : WellFormedPage(nodes[i], reader)}

\* The indices of the page elements among `nodes` that are not well-formed.
MalformedIn(nodes, reader) ==
    {i \in 1..Len(nodes) : IsPageElement(nodes[i]) /\ ~WellFormedPage(nodes[i], reader)}

\* The guide elements of the guides container of a page-layout element.
GuideElements(filter_el) ==
    LET IsGuide(node) == IsElement(node) /\ node.tag = "guide"
    IN  SelectSeq(NamedItem(filter_el, "guides").children, IsGuide)

\* The store with only the records of the pages in `keys`.
KeepRecords(s, keys) ==
    [items |-> [k \in DOMAIN s.items \cap keys |-> s.items[k]],
     guides |-> s.guides, showMiddleRect |-> s.showMiddleRect]

\* The pages the writer enumerates whose id the reader resolves to them
\* again, and those whose id it resolves to the null key.
ResolvedPages(enum, reader) ==
    {enum[i][1] : i \in {j \in 1..Len(enum) : ReaderPageId(reader, enum[j][2]) = enum[j][1]}}

UnresolvedPages(enum, reader) ==
    {enum[i][1] : i \in {j \in 1..Len(enum) : ReaderPageId(reader, enum[j][2]) = NullPageId}}

\* The reader resolves every id to the page the writer gave it, or to null.
ReaderAgrees(enum, reader) ==
    \A i \in 1..Len(enum) : ReaderPageId(reader, enum[i][2]) \in {enum[i][1], NullPageId}

(***************************************************************************)
(* C1.  Persistence round trip.                                            *)
(***************************************************************************)
\* C1, as claimed: saveSettings followed by loadSettings of the element it
\* produced gives back the store, less exactly the records of the pages
\* whose id the reader does not resolve, when the reader resolves every
\* other id to the page the writer enumerated it under.
C1_RoundTripAsClaimed ==
    [][IsLoadSaved =>
         LET enum == EnumPages(m_pages, last.base)
         IN  ReaderAgrees(enum, last'.reader) =>
               m_settings' = KeepRecords(m_settings,
                                         Pages \ UnresolvedPages(enum, last'.reader))]_vars

\* C1, amended: the round trip gives back the guides, the toggle and the
\* records of the pages the writer enumerated and the reader resolved; a
\* record of a page the writer does not enumerate is not saved.
C1_RoundTrip ==
    [][IsLoadSaved =>
         LET enum == EnumPages(m_pages, last.base)
         IN  ReaderAgrees(enum, last'.reader) =>
               m_settings' = KeepRecords(m_settings, ResolvedPages(enum, last'.reader))]_vars

\* A round trip that gave back guides, the toggle and a record, and lost a
\* record.
C1_Witness ==
    /\ last.op = "loadSettings" /\ last.doc = 0
    /\ last.reader \in {ReaderOfProject(base) : base \in IdBases}
    /\ last.had
    /\ DOMAIN m_settings.items # {}
    /\ Len(m_settings.guides) = 2
    /\ m_settings.showMiddleRect

(***************************************************************************)
(* C2.  loadSettings replaces the store.                                   *)
(***************************************************************************)
\* C2: after loadSettings the store is what the same load leaves in a new
\* store: every record is of a page element of the document, the guides are
\* the guide elements of the document and the toggle is the document's;
\* nothing the store held before survives.
C2_LoadReplaces ==
    [][IsLoad =>
         LET filter_el == NamedItem(DocLoaded, "page-layout")
             nodes == filter_el.children
             guide_els == GuideElements(filter_el)
         IN  /\ m_settings' = LoadSettings(NewSettings, last'.reader, DocLoaded)
             /\ \A k \in DOMAIN m_settings'.items :
                  \E i \in WellFormedIn(nodes, last'.reader) :
                     /\ KeyOf(nodes[i], last'.reader) = k
                     /\ m_settings'.items[k] = ParamsFromXml(NamedItem(nodes[i], "params"))
             /\ Len(m_settings'.guides) = Len(guide_els)
             /\ \A i \in 1..Len(guide_els) :
                  m_settings'.guides[i] = GuideFromXml(guide_els[i])
             /\ m_settings'.showMiddleRect
                  = (Attribute(filter_el, "showMiddleRect") = <<"1">>)]_vars

\* A load into a store that held a record and guides the document has not.
C2_Witness ==
    /\ last.op = "loadSettings"
    /\ last.had
    /\ last.kind = "guidesDropped"

(***************************************************************************)
(* C3.  Malformed page elements are skipped, one by one.                   *)
(***************************************************************************)
\* C3: after loadSettings the keys with a record are exactly the keys of
\* the well-formed page elements, and every well-formed page element that
\* no later one shares its key with has its params stored, whatever
\* malformed elements stand before or after it.
C3_SkipsMalformed ==
    [][IsLoad =>
         LET nodes == NamedItem(DocLoaded, "page-layout").children
             reader == last'.reader
             good == WellFormedIn(nodes, reader)
         IN  /\ DOMAIN m_settings'.items = {KeyOf(nodes[i], reader) : i \in good}
             /\ \A i \in good :
                  (\A j \in good : j > i => KeyOf(nodes[j], reader) # KeyOf(nodes[i], reader))
                  => m_settings'.items[KeyOf(nodes[i], reader)]
                       = ParamsFromXml(NamedItem(nodes[i], "params"))]_vars

\* A load of a document with a malformed page element of each kind between
\* two well-formed ones, both of which were loaded.
C3_Witness ==
    /\ last.op = "loadSettings" /\ last.doc > 0
    /\ LET nodes == NamedItem(SampleDocs[last.doc], "page-layout").children
           good == WellFormedIn(nodes, last.reader)
           bad == MalformedIn(nodes, last.reader)
       IN  /\ \E i \in bad : ~ToIntOk(Attribute(nodes[i], "id"))
           /\ \E i \in bad : ToIntOk(Attribute(nodes[i], "id"))
                             /\ KeyOf(nodes[i], last.reader) = NullPageId
           /\ \E i \in bad : ~HasParams(nodes[i])
           /\ \E i, k \in good :
                /\ \A j \in bad : i < j /\ j < k
                /\ KeyOf(nodes[i], last.reader) # KeyOf(nodes[k], last.reader)
                /\ {KeyOf(nodes[i], last.reader), KeyOf(nodes[k], last.reader)}
                     \subseteq DOMAIN m_settings.items

(***************************************************************************)
(* C7.  The shape of the saved element.                                    *)
(***************************************************************************)
\* The children of `el` with this tag, in document order.
ChildrenNamed(el, tag) ==
    LET Named(node) == IsElement(node) /\ node.tag = tag
    IN  SelectSeq(el.children, Named)

\* C7: the element saveSettings returns carries showMiddleRect "1" or "0"
\* as the toggle is on or off, has a guides child exactly when there are
\* guides, then with the guides as its children in list order, has one
\* page child, tagged with the numeric id, for each enumerated page with a
\* record and none for an enumerated page without, and nothing else; for an
\* empty store it has no child at all and showMiddleRect "0".
C7_SavedShape ==
    last.op = "saveSettings" =>
      LET el == ret.el
          enum == EnumPages(m_pages, last.base)
          guides_els == ChildrenNamed(el, "guides")
          page_els == ChildrenNamed(el, "page")
          tagged(id) == {j \in 1..Len(page_els) :
                           /\ ToIntOk(Attribute(page_els[j], "id"))
                           /\ ToInt(Attribute(page_els[j], "id")) = id}
          recorded == {i \in 1..Len(enum) : enum[i][1] \in DOMAIN m_settings.items}
      IN  /\ IsElement(el) /\ el.tag = "page-layout"
          /\ Attribute(el, "showMiddleRect")
               = IF m_settings.showMiddleRect THEN <<"1">> ELSE <<"0">>
          /\ Len(guides_els) = IF m_settings.guides = <<>> THEN 0 ELSE 1
          /\ m_settings.guides # <<>> =>
               /\ Len(guides_els[1].children) = Len(m_settings.guides)
               /\ \A i \in 1..Len(m_settings.guides) :
                    /\ guides_els[1].children[i].tag = "guide"
                    /\ GuideFromXml(guides_els[1].children[i]) = m_settings.guides[i]
          /\ \A i \in 1..Len(enum) :
               Cardinality(tagged(enum[i][2])) = IF i \in recorded THEN 1 ELSE 0
          /\ Len(page_els) = Cardinality(recorded)
          /\ \A j \in 1..Len(page_els) : HasParams(page_els[j])
          /\ Len(el.children) = Len(guides_els) + Len(page_els)
          /\ (m_settings = NewSettings) =>
               el.children = <<>> /\ Attribute(el, "showMiddleRect") = <<"0">>

\* A save of a store with the toggle on, two guides, an enumerated page
\* with a record and an enumerated page without.
C7_Witness ==
    /\ last.op = "saveSettings"
    /\ m_settings.showMiddleRect
    /\ Len(m_settings.guides) = 2
    /\ m_settings.guides[1] # m_settings.guides[2]
    /\ \E k \in SeqRange(m_pages) : k \in DOMAIN m_settings.items
    /\ \E k \in SeqRange(m_pages) : k \notin DOMAIN m_settings.items

(***************************************************************************)
(* C4.  Default seeding never overwrites.                                  *)
(***************************************************************************)
\* C4: loadDefaultSettings(page) leaves the store as it is unless the page
\* has no record before the call; in particular the second of two calls
\* in a row for one page changes nothing, and a record set by setParams
\* stays as set.
C4_SeedingKeepsRecords ==
    [][\A page_id \in Pages, d \in DefaultConfigs :
         LoadDefaultSettingsCall(page_id, d) =>
           /\ ~IsParamsNull(m_settings, page_id) => m_settings' = m_settings
           /\ (last.op = "loadDefaultSettings" /\ last.page = page_id)
                => m_settings' = m_settings
           /\ (last.op = "setPageParams" /\ last.page = page_id)
                => GetPageParams(m_settings', page_id) = GetPageParams(m_settings, page_id)
           /\ m_settings' # m_settings => IsParamsNull(m_settings, page_id)]_vars

\* loadDefaultSettings called a second time in a row for a page, under
\* other global defaults than the ones its record was seeded from.
C4_Witness ==
    /\ last.op = "loadDefaultSettings"
    /\ last.kind = "again"
    /\ last.had
    /\ \E d \in DefaultConfigs :
         m_settings.items[last.page] # SeedParams(PageInfo(last.page), d)

(***************************************************************************)
(* C5.  The seeded record.                                                 *)
(***************************************************************************)
\* C5: the record loadDefaultSettings stores for a page without one has
\* each of the four margins equal to the global default margin of that
\* side converted from the configured unit to millimetres at the page's
\* resolution, has the content rectangle, the page rectangle and the
\* content size undefined, and has the alignment and the auto-margin flag
\* of the global defaults; 0.5in at 300dpi gives 12.7mm on all four sides.
C5_SeededRecord ==
    [][\A page_id \in Pages, d \in DefaultConfigs :
         (LoadDefaultSettingsCall(page_id, d) /\ IsParamsNull(m_settings, page_id)) =>
           /\ page_id \in DOMAIN m_settings'.items
           /\ LET seeded == m_settings'.items[page_id]
                  dpi == PageInfo(page_id).dpi
              IN  /\ \A side \in 1..4 :
                       seeded.hardMarginsMM[side]
                         = ToMillimetres(d.hardMargins[side], d.units, dpi)
                  /\ seeded.contentRect = NullRect
                  /\ seeded.pageRect = NullRect
                  /\ seeded.contentSizeMM = InvalidSize
                  /\ seeded.alignment = d.alignment
                  /\ seeded.autoMargins = d.autoMargins
                  /\ (d.units = "INCHES" /\ d.hardMargins = Margins(5, 5, 5, 5) /\ dpi = 300)
                       => seeded.hardMarginsMM = Margins(127, 127, 127, 127)]_vars

\* A page without a record, at 300dpi, seeded with 12.7mm on every side.
C5_Witness ==
    /\ last.op = "loadDefaultSettings"
    /\ ~last.had
    /\ PageInfo(last.page).dpi = 300
    /\ m_settings.items[last.page].hardMarginsMM = Margins(127, 127, 127, 127)

(***************************************************************************)
(* C6.  A record is a value of its page alone.                             *)
(***************************************************************************)
\* C6: after setParams(k, r) getParams(k) gives r; setParams,
\* setContentSizeMM, invalidateContentSize and loadDefaultSettings for a
\* page leave what getParams gives for every other page as it was; and
\* changing a returned Params changes no record.
C6_RecordsAreValues ==
    [][/\ \A page_id \in Pages, params \in ParamsInputs :
            SetParams(page_id, params) => GetPageParams(m_settings', page_id) = <<params>>
       /\ last'.op \in {"setPageParams", "setContentBox", "invalidateContentBox",
                        "loadDefaultSettings"}
            => \A k \in Pages \ {last'.page} :
                  GetPageParams(m_settings', k) = GetPageParams(m_settings, k)
       /\ last'.op = "getPageParams"
            => ret'.params = GetPageParams(m_settings, last'.page)
       /\ last'.op = "mutateReturned" => m_settings' = m_settings]_vars

\* A caller changed the Params it was returned for a page while every page
\* had a record: the page's record is not the changed one.
C6_Witness ==
    /\ last.op = "mutateReturned"
    /\ DOMAIN m_settings.items = Pages
    /\ ret.params # <<>>
    /\ ret.params[1] # m_settings.items[last.page]

(***************************************************************************)
(* C8.  selected() purges the records of pages that left the project.      *)
(***************************************************************************)
\* C8: selected() leaves exactly the records whose keys were stored before
\* and are in the project's page sequence, each as it was, and the guides
\* and the toggle as they were.
C8_SelectedKeepsIntersection ==
    [][Selected =>
         /\ DOMAIN m_settings'.items = DOMAIN m_settings.items \cap SeqRange(m_pages)
         /\ \A k \in DOMAIN m_settings'.items : m_settings'.items[k] = m_settings.items[k]
         /\ m_settings'.guides = m_settings.guides
         /\ m_settings'.showMiddleRect = m_settings.showMiddleRect]_vars

\* selected() with a record of a page that had left the project and a
\* record of a page still in it.
C8_Witness ==
    /\ last.op = "selected"
    /\ last.had
    /\ DOMAIN m_settings.items # {}

(***************************************************************************)
(* C9.  Relinking one key to null.                                         *)
(***************************************************************************)
\* C9: performRelinking with a relinker that maps a key k to null and
\* every other stored key to itself removes the record of k and no other,
\* and leaves the other records, the guides and the toggle as they were.
C9_RelinkDropsOne ==
    [][\A relinker \in Relinkers, page_id \in Pages :
         (/\ relinker[page_id] = NullPageId
          /\ \A k \in DOMAIN m_settings.items \ {page_id} : relinker[k] = k
          /\ PerformRelinking(relinker)) =>
           m_settings' = KeepRecords(m_settings, Pages \ {page_id})]_vars

\* A relinking that dropped the one stored key it maps to null and kept
\* another record.
C9_Witness ==
    /\ last.op = "performRelinking"
    /\ last.kind = "drop"
    /\ last.page \notin DOMAIN m_settings.items
    /\ DOMAIN m_settings.items # {}

(***************************************************************************)
(* C10.  Relinking with the identity.                                      *)
(***************************************************************************)
\* C10: performRelinking with a relinker that maps every key to itself
\* leaves the store as it was.
C10_RelinkIdentity ==
    [][\A relinker \in Relinkers :
         ((\A k \in Pages : relinker[k] = k) /\ PerformRelinking(relinker))
           => m_settings' = m_settings]_vars

\* An identity relinking of a store with a record for every page, one of
\* them of a page that has left the project.
C10_Witness ==
    /\ last.op = "performRelinking"
    /\ last.kind = "identity"
    /\ DOMAIN m_settings.items = Pages
    /\ \E k \in Pages : k \notin SeqRange(m_pages)

(***************************************************************************)
(* C11.  invalidateContentBox(k) right after setContentBox(k, ...) leaves  *)
(* page k with a record whose margins, alignment and auto-margin flag are  *)
(* what the store answered for k before the two calls (the stored ones, or *)
(* the defaults when k had no record) and whose content size is undefined. *)
(***************************************************************************)
C11_InvalidateAfterSet ==
    [][(/\ last.op = "setContentBox"
        /\ last'.op = "invalidateContentBox"
        /\ last'.page = last.page)
       => LET k == last.page
              before == last.arg
          IN  /\ k \in DOMAIN m_settings'.items
              /\ ~IsValidSize(m_settings'.items[k].contentSizeMM)
              /\ GetHardMarginsMM(m_settings', k) =
                    IF before = <<>> THEN DefaultHardMarginsMM
                    ELSE before[1].hardMarginsMM
              /\ GetPageAlignment(m_settings', k) =
                    IF before = <<>> THEN DefaultAlignment ELSE before[1].alignment
              /\ IsPageAutoMarginsEnabled(m_settings', k) =
                    IF before = <<>> THEN FALSE ELSE before[1].autoMargins]_vars

\* The two calls were made for a page whose record had margins and a flag
\* that differ from the defaults.
C11_Witness ==
    /\ last.op = "invalidateContentBox"
    /\ last.kind = "afterSet"
    /\ last.arg # <<>>
    /\ last.arg[1].hardMarginsMM # DefaultHardMarginsMM
    /\ last.arg[1].autoMargins
    /\ m_settings.items[last.page].autoMargins
    /\ m_settings.items[last.page].hardMarginsMM = last.arg[1].hardMarginsMM
    /\ m_settings.items[last.page].contentSizeMM = InvalidSize

(***************************************************************************)
(* C12.  checkReadyForOutput(pages, ignore) returns true exactly when      *)
(* every page of the sequence of `pages`, other than the ignored one, has  *)
(* a record with a defined content size; the answer is the same whatever   *)
(* the store holds for the ignored page.                                   *)
(***************************************************************************)
\* The pages of `pages` that count: all but the ignored one.
Counted(pages, ignore) == SeqRange(pages) \ SeqRange(ignore)

HasDefinedContent(s, page_id) ==
    /\ GetPageParams(s, page_id) # <<>>
    /\ GetPageParams(s, page_id)[1].contentSizeMM[1] >= 0
    /\ GetPageParams(s, page_id)[1].contentSizeMM[2] >= 0

\* The store without the record of page_id.
Without(s, page_id) ==
    [s EXCEPT !.items = [k \in DOMAIN s.items \ {page_id} |-> s.items[k]]]

C12_ReadyIffAllDefined ==
    [][last'.op = "checkReadyForOutput"
       => LET pages == last'.arg[1]
              ignore == last'.arg[2]
          IN  /\ ret'.ready <=> \A k \in Counted(pages, ignore) :
                                   HasDefinedContent(m_settings, k)
              /\ \A k \in SeqRange(ignore) :
                    /\ ret'.ready = CheckReadyForOutput(Without(m_settings, k), pages, ignore)
                    /\ ret'.ready = CheckReadyForOutput(SetPageParams(m_settings, k, ParamsA),
                                                        pages, ignore)
                    /\ ret'.ready = CheckReadyForOutput(SetPageParams(m_settings, k, ParamsB),
                                                        pages, ignore)]_vars

\* The stage was found ready for a project of two pages or more though the
\* ignored page, one of them, has no defined content.
C12_Witness ==
    /\ last.op = "checkReadyForOutput"
    /\ ret.ready
    /\ Len(last.arg[1]) >= 2
    /\ last.arg[2] # <<>>
    /\ last.arg[2][1] \in SeqRange(last.arg[1])
    /\ ~HasDefinedContent(m_settings, last.arg[2][1])

(***************************************************************************)
(* C13.  A task of either kind, when it runs, reads the store as the stage *)
(* holds it at that moment, whatever was written to the store between the  *)
(* task's creation and its run; and every task not yet run would.          *)
(***************************************************************************)
C13_TasksSeeLatestStore ==
    [][/\ last'.op = "process" => ret'.seen = <<m_settings'>>
       /\ \A t \in tasks' : TaskSettings(t)' = m_settings']_vars

\* A forward task ran right after a load that had replaced the store it
\* was created over, and read the records the load left.
C13_Witness ==
    /\ last.op = "process"
    /\ last.kind = "Task"
    /\ last.had
    /\ last.arg = <<"loadSettings">>
    /\ ret.seen = <<m_settings>>
    /\ DOMAIN m_settings.items # {}

(***************************************************************************)
(* C14.  The page-order options are, from construction on and through      *)
(* every step, the four entries natural (no provider), increasing width,   *)
(* increasing height, decreasing deviation, in that order.  The selected   *)
(* index is 0 after construction; a selectPageOrder call whose argument    *)
(* satisfies the asserted bound leaves it equal to that argument, a valid  *)
(* index into the list; no other operation changes it.                     *)
(***************************************************************************)
\* The providers of a list of options, in list order.
ProvidersOf(options) == [i \in 1..Len(options) |-> options[i].provider]

C14_PageOrderSelection ==
    [][/\ ProvidersOf(m_pageOrderOptions) =
            <<NullProvider, OrderByWidthProvider, OrderByHeightProvider,
              OrderByDeviationProvider>>
       /\ m_pageOrderOptions' = m_pageOrderOptions
       /\ last.op = "Filter" => m_selectedPageOrder = 0
       /\ (/\ last'.op = "selectPageOrder"
           /\ AssertedBound(last'.arg[1], Len(m_pageOrderOptions)))
          => /\ m_selectedPageOrder' = last'.arg[1]
             /\ m_selectedPageOrder' \in 0..(Len(m_pageOrderOptions) - 1)
       /\ last'.op # "selectPageOrder" => m_selectedPageOrder' = m_selectedPageOrder]_vars

\* The last option of the list is selected, the store holding records and
\* the project having been reordered meanwhile.
C14_Witness ==
    /\ last.op = "selectPageOrder"
    /\ last.arg = <<3>>
    /\ m_selectedPageOrder = 3
    /\ DOMAIN m_settings.items # {}
    /\ m_pages # [i \in 1..NumPages |-> i]

(***************************************************************************)
(* C15.  Under the width option and under the height option the ordered    *)
(* sequence holds the project's pages, each once; a page never comes       *)
(* before a page of strictly smaller measurement, an undefined measurement *)
(* counting as zero; and two pages of equal measurement come in their      *)
(* natural order.                                                          *)
(***************************************************************************)
\* The measurement the claim speaks of: the width (dim 1) or height (dim 2)
\* of the page's content size, zero when the page has none.
ClaimedMeasurement(s, page_id, dim) ==
    IF HasDefinedContent(s, page_id) THEN s.items[page_id].contentSizeMM[dim] ELSE 0

\* The place of a page in a sequence that holds it once.
PlaceIn(seq, page_id) == CHOOSE i \in 1..Len(seq) : seq[i] = page_id

IsReorderingOf(order, pages) ==
    /\ Len(order) = Len(pages)
    /\ SeqRange(order) = SeqRange(pages)

C15_AscendingStable ==
    [][(last'.op = "orderPages" /\ m_selectedPageOrder \in {1, 2})
       => LET order == ret'.order
              m(k) == ClaimedMeasurement(m_settings, k, m_selectedPageOrder)
          IN  /\ IsReorderingOf(order, m_pages)
              /\ \A i, j \in 1..Len(order) :
                    i < j => /\ m(order[i]) <= m(order[j])
                             /\ m(order[i]) = m(order[j])
                                => PlaceIn(m_pages, order[i]) < PlaceIn(m_pages, order[j])]_vars

\* Ordering by width moved a page without a defined content size in front
\* of a page with one that precedes it in the natural order.
C15_Witness ==
    /\ last.op = "orderPages"
    /\ m_selectedPageOrder = 1
    /\ Len(m_pages) >= 2
    /\ ret.order # m_pages
    /\ ~HasDefinedContent(m_settings, ret.order[1])
    /\ HasDefinedContent(m_settings, ret.order[2])

(***************************************************************************)
(* C16.  Under the deviation option the ordered sequence holds the         *)
(* project's pages, each once, and no page comes before a page of strictly *)
(* larger deviation.  No other option orders downwards: under the width    *)
(* and height options, pages of different measurement never come out all   *)
(* in descending order, and under the natural option the sequence is the   *)
(* project's own, whatever the scores.                                     *)
(***************************************************************************)
C16_DeviationDescending ==
    [][last'.op = "orderPages"
       => LET order == ret'.order
              scores == last'.arg[1]
              m(k) == ClaimedMeasurement(m_settings, k, m_selectedPageOrder)
          IN  /\ m_selectedPageOrder = 3
                 => /\ IsReorderingOf(order, m_pages)
                    /\ \A i, j \in 1..Len(order) :
                          i < j => scores[order[i]] >= scores[order[j]]
              /\ m_selectedPageOrder \in {1, 2}
                 => \/ \A i, j \in 1..Len(order) : m(order[i]) = m(order[j])
                    \/ \E i, j \in 1..Len(order) : i < j /\ m(order[i]) < m(order[j])
              /\ m_selectedPageOrder = 0 => order = m_pages]_vars

\* Ordering by deviation moved the page with the larger score in front of
\* a page that precedes it in the natural order.
C16_Witness ==
    /\ last.op = "orderPages"
    /\ m_selectedPageOrder = 3
    /\ Len(m_pages) >= 2
    /\ ret.order # m_pages
    /\ last.arg[1][ret.order[1]] > last.arg[1][ret.order[2]]

(***************************************************************************)
(* C17.  After loadSettings the middle-rect toggle is on exactly when the  *)
(* document has a page-layout container whose showMiddleRect attribute is  *)
(* "1"; when the container is missing, the store is left with the toggle   *)
(* off, no records and no guides.                                          *)
(***************************************************************************)
\* The document has a page-layout container that says "1".
SaysShowMiddleRect(filters_el) ==
    \E i \in 1..Len(filters_el.children) :
        LET node == filters_el.children[i]
        IN  /\ IsElement(node)
            /\ node.tag = "page-layout"
            /\ \A j \in 1..(i - 1) : ~(/\ IsElement(filters_el.children[j])
                                       /\ filters_el.children[j].tag = "page-layout")
            /\ "showMiddleRect" \in DOMAIN node.attrs
            /\ node.attrs["showMiddleRect"] = <<"1">>

HasContainer(filters_el) ==
    \E i \in 1..Len(filters_el.children) :
        IsElement(filters_el.children[i]) /\ filters_el.children[i].tag = "page-layout"

C17_LoadedToggle ==
    [][IsLoad =>
         /\ m_settings'.showMiddleRect <=> SaysShowMiddleRect(DocLoaded)
         /\ ~HasContainer(DocLoaded)
            => /\ ~m_settings'.showMiddleRect
               /\ DOMAIN m_settings'.items = {}
               /\ m_settings'.guides = <<>>]_vars

\* A document without the container was loaded into a store that held
\* records, guides and the toggle on.
C17_Witness ==
    /\ last.op = "loadSettings"
    /\ last.doc \in 1..Len(SampleDocs)
    /\ SampleDocs[last.doc] = DocNoContainer
    /\ last.had
    /\ last.kind = "guidesDropped"
    /\ ~m_settings.showMiddleRect
    /\ DOMAIN m_settings.items = {}

(***************************************************************************)
(* C18.  When several well-formed page elements of a document resolve to   *)
(* the same page key, loadSettings leaves that key the params of the last  *)
(* of them in document order; and the store holds one record per key the   *)
(* well-formed elements resolve to, however many elements resolve to it.   *)
(***************************************************************************)
\* Per child of the container, the page key it resolves to when it is a
\* well-formed page element, and the null key otherwise.
ResolvedKeys(nodes, reader) ==
    [i \in 1..Len(nodes) |->
       IF WellFormedPage(nodes[i], reader) THEN KeyOf(nodes[i], reader) ELSE NullPageId]

\* The indices of the well-formed page elements that resolve to `key`.
ElementsFor(nodes, reader, key) ==
    {i \in WellFormedIn(nodes, reader) : KeyOf(nodes[i], reader) = key}

C18_LastDuplicateWins ==
    [][IsLoad =>
         \A nodes \in {NamedItem(DocLoaded, "page-layout").children} :
         \A keyOf \in {ResolvedKeys(nodes, last'.reader)} :
             /\ Cardinality(DOMAIN m_settings'.items)
                  = Cardinality({keyOf[i] : i \in DOMAIN keyOf} \ {NullPageId})
             /\ \A i \in DOMAIN keyOf :
                  (/\ keyOf[i] # NullPageId
                   /\ \E j \in DOMAIN keyOf : j < i /\ keyOf[j] = keyOf[i]
                   /\ \A j \in DOMAIN keyOf : j > i => keyOf[j] # keyOf[i])
                  => /\ keyOf[i] \in DOMAIN m_settings'.items
                     /\ m_settings'.items[keyOf[i]] =
                          ParamsFromXml(NamedItem(nodes[i], "params"))]_vars

\* A document with two elements for page 1, the first with the params A
\* and the last with the params B, was loaded, and page 1 has B.
C18_Witness ==
    /\ last.op = "loadSettings"
    /\ last.doc \in 1..Len(SampleDocs)
    /\ SampleDocs[last.doc] = DocDuplicates
    /\ Cardinality(ElementsFor(NamedItem(DocDuplicates, "page-layout").children,
                               last.reader, 1)) >= 2
    /\ 1 \in DOMAIN m_settings.items
    /\ m_settings.items[1] = ParamsFromXml(ParamsToXml(ParamsB, "params"))
    /\ m_settings.items[1] # ParamsFromXml(ParamsToXml(ParamsA, "params"))

(***************************************************************************)
(* C19.  After loadDefaultSettings(page) the page has a record in every    *)
(* case.  A record that setContentBox has just made on demand, or that     *)
(* invalidateContentBox has just left behind, is the page's record after   *)
(* the call too, with the margins and alignment of the store's on-demand   *)
(* record where setContentBox made it; the call gives the page the         *)
(* converted global defaults exactly when the page had no record.          *)
(***************************************************************************)
C19_SeedingGatedOnExistence ==
    [][\A page_id \in Pages, d \in DefaultConfigs :
         LoadDefaultSettingsCall(page_id, d) =>
           LET had == page_id \in DOMAIN m_settings.items
               after == m_settings'.items[page_id]
           IN  /\ page_id \in DOMAIN m_settings'.items
               /\ (/\ last.op \in {"setContentBox", "invalidateContentBox"}
                   /\ last.page = page_id
                   /\ had)
                  => after = m_settings.items[page_id]
               /\ (last.op = "setContentBox" /\ last.page = page_id /\ last.arg = <<>>)
                  => /\ after.hardMarginsMM = DefaultHardMarginsMM
                     /\ after.alignment = DefaultAlignment
               /\ had => /\ after.hardMarginsMM = m_settings.items[page_id].hardMarginsMM
                         /\ after.alignment = m_settings.items[page_id].alignment
               /\ ~had => /\ after.hardMarginsMM =
                               SeedParams(PageInfo(page_id), d).hardMarginsMM
                          /\ after.alignment = d.alignment]_vars

\* loadDefaultSettings was called for a page whose record setContentBox had
\* made on demand and invalidateContentBox had then left without a content
\* size; the record is still that one, not a seeded one.
C19_Witness ==
    /\ last.op = "loadDefaultSettings"
    /\ last.had
    /\ last.kind # "again"
    /\ m_settings.items[last.page] =
         Params(DefaultHardMarginsMM, NullRect, NullRect, InvalidSize, DefaultAlignment, FALSE)
    /\ \A d \in DefaultConfigs :
         m_settings.items[last.page].hardMarginsMM
           # SeedParams(PageInfo(last.page), d).hardMarginsMM

====
